---- MODULE Spec2Model ----
(***************************************************************************)
(* Model of the iterator adapters of zipper.h and enumerator.h:            *)
(*   Zipper<Containers...>             ("zip"):     lock-step traversal    *)
(*   Enumerator<Container>             ("enum"):    index + element        *)
(*   Enumerator<Zipper<Containers...>> ("enumzip"): index + tuple          *)
(* A traversal is the range-based for loop                                 *)
(*   b = r.begin(); e = r.end(); while (b != e) { x = *b; body; ++b; }     *)
(* Iterator positions are 1-based: std::begin(c) is 1, std::end(c) is      *)
(* Len(c) + 1.  A reference is a record naming the object it aliases.      *)
(***************************************************************************)
EXTENDS Integers, Sequences, FiniteSets, TLC

\* ---------------------------------------------------------------- bounds
MaxN == 2
MaxLen == 2
MaxRounds == 2
MaxWrites == 1
MaxOverrun == 1
SizeBits == 3

WriteValues == {99}
StartArgs == {0, 3}
StepArgs == {-1, 0, 1}
GarbageValues == {-7, -8}
Kinds == {"zip", "enum", "enumzip"}
NoSize == <<>>
NoWrite == [j |-> 0, step |-> 0, v |-> 0]

\* ---------------------------------------------------------------- helpers
RECURSIVE Pow2(_)
Pow2(n) == IF n = 0 THEN 1 ELSE 2 * Pow2(n - 1)

\* size_t arithmetic: values are kept modulo 2^SizeBits
SizeMod == Pow2(SizeBits)

\* implicit conversion of a signed argument to size_t at the call
ToSizeT(x) == x % SizeMod

\* The adapters never inspect an element, so the elements are labels that
\* tell every position of every source apart: element i of source j
Elem(j, i) == 10 * j + i

\* the n sources of the given lengths
Sources(lens) == [j \in DOMAIN lens |-> [i \in 1..lens[j] |-> Elem(j, i)]]

\* every choice of 1..n sources with lengths 0..MaxLen
SourceChoices(n) == UNION {{Sources(lens) : lens \in [1..k -> 0..MaxLen]} : k \in 1..n}

RECURSIVE MinOf(_)
MinOf(S) == LET x == CHOOSE y \in S : TRUE
            IN IF S = {x} THEN x
               ELSE LET m == MinOf(S \ {x}) IN IF x < m THEN x ELSE m

RECURSIVE MaxOf(_)
MaxOf(S) == LET x == CHOOSE y \in S : TRUE
            IN IF S = {x} THEN x
               ELSE LET m == MaxOf(S \ {x}) IN IF x > m THEN x ELSE m

VARIABLES
    kind,            \* which adapter the loop traverses
    src,             \* the caller-owned containers, src[j][i]
    argS, argK,      \* the signed arguments the caller wrote (history)
    initial_index_,  \* Enumerator::initial_index_
    step_,           \* Enumerator::step_
    it,              \* the loop's cursor (__begin)
    e,               \* the loop's end cursor (__end)
    cur,             \* the tuple of references last produced by operator*
    out,             \* the values produced so far by this traversal
    pc,              \* position of the loop
    round,           \* number of the current traversal
    firstOut,        \* what the first complete traversal produced (history)
    dirty,           \* TRUE once a source was written through a reference
    sz,              \* <<result>> of the last Zipper::size(), <<>> before it
    writes,          \* number of writes made through references
    pre,             \* src before the last write (history)
    lastW,           \* the last write: component j, traversal step, value
    mid,             \* the cursor between the two statements of the last
                     \* Enumerator operator++
    pair             \* two more traversals of the same Zipper: their cursor
                     \* objects, end markers, loop positions and outputs

vars == <<kind, src, argS, argK, initial_index_, step_, it, e, cur, out, pc,
          round, firstOut, dirty, sz, writes, pre, lastW, mid, pair>>

\* everything but the two extra traversals
loopVars == <<kind, src, argS, argK, initial_index_, step_, it, e, cur, out, pc,
              round, firstOut, dirty, sz, writes, pre, lastW, mid>>

N == Len(src)
Lens == {Len(src[j]) : j \in 1..N}

\* ------------------------------------------------------------- zipper.h
\* std::begin / std::end of container j
StdBegin(j) == 1
StdEnd(j) == Len(src[j]) + 1

\* Zipper::Iterator::Begin
ZipBeginStale == [iter_ |-> IF it = [iter_ |-> <<>>] THEN [j \in 1..N |-> StdBegin(j)]
                           ELSE IF kind = "zip" THEN it.iter_ ELSE it.iter_.iter_]
ZipBegin == [iter_ |-> [j \in 1..N |-> StdBegin(j)]]

\* Zipper::Iterator::End
ZipEnd == [iter_ |-> [j \in 1..N |-> StdEnd(j)]]

\* Zipper::Iterator::IsEnd : any_of over the per-source comparisons
IsEndAll(zi, ze) == \A j \in 1..N : zi.iter_[j] = ze.iter_[j]
IsEndFirst(zi, ze) == zi.iter_[1] = ze.iter_[1]
IsEnd(zi, ze) == \E j \in 1..N : zi.iter_[j] = ze.iter_[j]

\* Zipper::Iterator::operator==(const EndIterator &), operator!=(const EndIterator &)
ZipEqEnd(zi, ze) == IsEnd(zi, ze)
ZipNeqEnd(zi, ze) == ~ZipEqEnd(zi, ze)

\* Zipper::Iterator::operator==(const Iterator &), operator!=(const Iterator &)
ZipEqIter(za, zb) == za.iter_ = zb.iter_
ZipNeqIterAny(za, zb) == \A j \in 1..N : za.iter_[j] /= zb.iter_[j]
ZipNeqIter(za, zb) == za.iter_ /= zb.iter_

\* Zipper::Iterator::Increment : every component ++, unconditionally
IncrementNotPastEnd(zi) == [iter_ |-> [j \in 1..N |-> IF zi.iter_[j] > Len(src[j]) THEN zi.iter_[j] ELSE zi.iter_[j] + 1]]
IncrementRewind(zi) == [iter_ |-> [j \in 1..N |-> IF zi.iter_[j] > Len(src[j]) THEN StdBegin(j) ELSE zi.iter_[j] + 1]]
IncrementFirstOnly(zi) == [iter_ |-> [j \in 1..N |-> IF j = 1 THEN zi.iter_[j] + 1 ELSE zi.iter_[j]]]
Increment(zi) == [iter_ |-> [j \in 1..N |-> zi.iter_[j] + 1]]

\* Zipper::Iterator::operator++
ZipInc(zi) == Increment(zi)

\* Zipper::Iterator::GetValueHelper : *it is a reference to the element
GetValueHelperCopy(j, p) == [obj |-> "copy", j |-> j, pos |-> p]
GetValueHelper(j, p) == [obj |-> "src", j |-> j, pos |-> p]

\* Zipper::Iterator::GetValue : the tuple of the N references
GetValue(iters) == [j \in 1..N |-> GetValueHelper(j, iters[j])]

\* Zipper::Iterator::operator* : works on a copy of iter_
ZipDeref(zi) == LET iter_tmp == zi.iter_ IN GetValue(iter_tmp)

\* Zipper::GetSize : std::min over the std::distance of every source
GetSizeMax == MaxOf({StdEnd(j) - StdBegin(j) : j \in 1..N})
GetSize == MinOf({StdEnd(j) - StdBegin(j) : j \in 1..N})

\* Zipper::size
ZipSize == GetSize

\* --------------------------------------------------------- enumerator.h
\* Enumerator::Enumerator / Enumerator<Zipper>::Enumerator : the arguments
\* arrive as size_t
Construct(s, k) == [initial_index_ |-> ToSizeT(s), step_ |-> ToSizeT(k)]

\* Enumerator::Iterator::Begin
EnumBegin == [iter_ |-> StdBegin(1), index_ |-> initial_index_, step_ |-> step_]

\* Enumerator::Iterator::End
EnumEnd == [iter_ |-> StdEnd(1), index_ |-> ToSizeT(Len(src[1])), step_ |-> step_]

\* Enumerator<Zipper>::Iterator::Begin
EnumZipBegin == [iter_ |-> ZipBegin, index_ |-> initial_index_, step_ |-> step_]

\* Enumerator<Zipper>::Iterator::End : iter_ takes the positions of zipper.end()
EnumZipEnd == [iter_ |-> ZipEnd, index_ |-> ToSizeT(ZipSize), step_ |-> step_]

\* Enumerator::Iterator::operator== / operator!=
EnumEqWithIndex(a, b) == a.iter_ = b.iter_ /\ a.index_ = b.index_
EnumEq(a, b) == a.iter_ = b.iter_
EnumNeqWithIndex(a, b) == a.iter_ /= b.iter_ /\ a.index_ /= b.index_
EnumNeq(a, b) == a.iter_ /= b.iter_

\* Enumerator<Zipper>::Iterator::operator== / operator!= : Iterator against
\* Iterator of the Zipper
EnumZipEq(a, b) == ZipEqIter(a.iter_, b.iter_)
EnumZipNeq(a, b) == ZipNeqIter(a.iter_, b.iter_)

\* Enumerator::Iterator::operator++ after its first statement, index_ += step_
EnumIncMidInnerFirst(a) == [a EXCEPT !.iter_ = @ + 1]
EnumIncMid(a) == [a EXCEPT !.index_ = (@ + a.step_) % SizeMod]

\* Enumerator<Zipper>::Iterator::operator++ after its first statement
EnumZipIncMid(a) == [a EXCEPT !.index_ = (@ + a.step_) % SizeMod]

\* Enumerator::Iterator::operator++
EnumIncNoIndex(a) == [a EXCEPT !.iter_ = @ + 1]
EnumInc(a) == [a EXCEPT !.index_ = (@ + a.step_) % SizeMod, !.iter_ = @ + 1]

\* Enumerator<Zipper>::Iterator::operator++
EnumZipInc(a) == [a EXCEPT !.index_ = (@ + a.step_) % SizeMod, !.iter_ = ZipInc(@)]

\* Enumerator::Iterator::operator* : {index_, *iter_}
EnumDeref(a) == <<GetValueHelper(1, a.iter_)>>

\* Enumerator<Zipper>::Iterator::operator* : make_tuple(index_, *iter_)
EnumZipDeref(a) == ZipDeref(a.iter_)

\* ------------------------------------------------------------ the memory
\* a position that can be dereferenced
Valid(r) == r.pos \in 1..Len(src[r.j])

\* what reading through a reference can give: the element, or anything at
\* all when the position is outside the container (undefined behaviour)
ReadSet(r) == IF Valid(r) THEN {src[r.j][r.pos]} ELSE GarbageValues

\* the positions the loop's cursor holds, per source
Positions == IF kind = "zip" THEN it.iter_
             ELSE IF kind = "enum" THEN <<it.iter_>>
             ELSE it.iter_.iter_

\* the positions the loop's end cursor holds, per source
EndPositions == IF kind = "zip" THEN e.iter_
                ELSE IF kind = "enum" THEN <<e.iter_>>
                ELSE e.iter_.iter_

\* the sources after operator* produced the references refs: GetValueHelper
\* returns *it and assigns nothing
SrcAfterReadMoved(refs) == [j \in 1..N |-> [i \in 1..Len(src[j]) |->
                               IF \E r \in 1..Len(refs) : refs[r].j = j /\ refs[r].pos = i
                               THEN 0 ELSE src[j][i]]]
SrcAfterRead(refs) == src

\* the Enumerator's members after begin() or end(): both read
\* initial_index_ and step_ and assign neither
MembersAfterCallBumped == [initial_index_ |-> (initial_index_ + step_) % SizeMod, step_ |-> step_]
MembersAfterCall == [initial_index_ |-> initial_index_, step_ |-> step_]

\* ------------------------------------------------------------ the loop
NoCursor == [iter_ |-> <<>>]

\* the two traversals that share one Zipper
Cursors == {1, 2}

\* Zipper::begin returns its Iterator by value: the cursor of traversal c is
\* an object of its own
SlotShared(c) == 1
Slot(c) == c

Init ==
    /\ kind \in Kinds
    /\ src \in SourceChoices(IF kind = "enum" THEN 1 ELSE MaxN)
    /\ argS \in (IF kind = "zip" THEN {0} ELSE StartArgs)
    /\ argK \in (IF kind = "zip" THEN {1} ELSE StepArgs)
    /\ initial_index_ = Construct(argS, argK).initial_index_
    /\ step_ = Construct(argS, argK).step_
    /\ it = NoCursor
    /\ e = NoCursor
    /\ cur = <<>>
    /\ out = <<>>
    /\ pc = "idle"
    /\ round = 1
    /\ firstOut = <<>>
    /\ dirty = FALSE
    /\ sz = NoSize
    /\ writes = 0
    /\ pre = src
    /\ lastW = NoWrite
    /\ mid = NoCursor
    /\ pair = [cursor |-> [c \in Cursors |-> NoCursor],
               e |-> [c \in Cursors |-> NoCursor],
               pc |-> [c \in Cursors |-> "idle"],
               out |-> [c \in Cursors |-> <<>>]]

\* r.begin()
CallBegin ==
    /\ pc = "idle"
    /\ it' = CASE kind = "zip" -> ZipBegin
               [] kind = "enum" -> EnumBegin
               [] kind = "enumzip" -> EnumZipBegin
    /\ out' = <<>>
    /\ cur' = <<>>
    /\ pc' = "begun"
    /\ initial_index_' = MembersAfterCall.initial_index_
    /\ step_' = MembersAfterCall.step_
    /\ UNCHANGED <<kind, src, argS, argK, e, round,
                   firstOut, dirty, sz, writes, pre, lastW>>
    /\ mid' = NoCursor
    /\ UNCHANGED pair

\* r.end()
CallEnd ==
    /\ pc = "begun"
    /\ e' = CASE kind = "zip" -> ZipEnd
              [] kind = "enum" -> EnumEnd
              [] kind = "enumzip" -> EnumZipEnd
    /\ pc' = "test"
    /\ initial_index_' = MembersAfterCall.initial_index_
    /\ step_' = MembersAfterCall.step_
    /\ UNCHANGED <<kind, src, argS, argK, it, cur, out,
                   round, firstOut, dirty, sz, writes, pre, lastW>>
    /\ UNCHANGED mid
    /\ UNCHANGED pair

\* b != e, by the operator!= of the cursor's class
NotAtEnd == CASE kind = "zip" -> ZipNeqEnd(it, e)
              [] kind = "enum" -> EnumNeq(it, e)
              [] kind = "enumzip" -> EnumZipNeq(it, e)

Test ==
    /\ pc = "test"
    /\ pc' = IF NotAtEnd THEN "body" ELSE "done"
    /\ UNCHANGED <<kind, src, argS, argK, initial_index_, step_, it, e, cur,
                   out, round, firstOut, dirty, sz, writes, pre, lastW>>
    /\ UNCHANGED mid
    /\ UNCHANGED pair

\* *b, by the operator* of the cursor's class
Refs == CASE kind = "zip" -> ZipDeref(it)
          [] kind = "enum" -> EnumDeref(it)
          [] kind = "enumzip" -> EnumZipDeref(it)

\* the value the loop sees for a tuple of values read through the references
Produced(vals) == CASE kind = "zip" -> vals
                    [] kind = "enum" -> <<it.index_, vals[1]>>
                    [] kind = "enumzip" -> <<it.index_, vals>>

Deref ==
    /\ pc = "body"
    /\ cur' = Refs
    /\ \E k \in [1..N -> GarbageValues] :
          LET vals == [j \in 1..N |-> IF Valid(Refs[j]) THEN src[Refs[j].j][Refs[j].pos] ELSE k[j]]
          IN /\ \A j \in 1..N : vals[j] \in ReadSet(Refs[j])
             /\ out' = Append(out, Produced(vals))
    /\ pc' = "inc"
    /\ src' = SrcAfterRead(Refs)
    /\ UNCHANGED <<kind, argS, argK, initial_index_, step_, it, e, round,
                   firstOut, dirty, sz, writes, pre, lastW>>
    /\ UNCHANGED mid
    /\ UNCHANGED pair

\* the loop body assigns through component j of the tuple
WriteThrough ==
    /\ pc = "inc"
    /\ kind = "zip"
    /\ writes < MaxWrites
    /\ \E j \in 1..N, v \in WriteValues :
          /\ Valid(cur[j])
          /\ src' = IF cur[j].obj = "src"
                    THEN [src EXCEPT ![cur[j].j][cur[j].pos] = v]
                    ELSE src
          /\ lastW' = [j |-> j, step |-> Len(out), v |-> v]
    /\ pre' = src
    /\ writes' = writes + 1
    /\ dirty' = TRUE
    /\ UNCHANGED <<kind, argS, argK, initial_index_, step_, it, e, cur, out,
                   pc, round, firstOut, sz>>
    /\ UNCHANGED mid
    /\ UNCHANGED pair

\* ++b, by the operator++ of the cursor's class
Advance ==
    /\ pc = "inc"
    /\ \A j \in 1..N : Positions[j] <= Len(src[j]) + MaxOverrun
    /\ it' = CASE kind = "zip" -> ZipInc(it)
               [] kind = "enum" -> EnumInc(it)
               [] kind = "enumzip" -> EnumZipInc(it)
    /\ pc' = "test"
    /\ UNCHANGED <<kind, src, argS, argK, initial_index_, step_, e, cur, out,
                   round, firstOut, dirty, sz, writes, pre, lastW>>
    /\ mid' = CASE kind = "zip" -> NoCursor
                [] kind = "enum" -> EnumIncMid(it)
                [] kind = "enumzip" -> EnumZipIncMid(it)
    /\ UNCHANGED pair

\* a cursor outside its container: the run may end here, for good
Crash ==
    /\ pc \in {"body", "inc"}
    /\ \E j \in 1..N : Positions[j] > Len(src[j])
    /\ pc' = "crashed"
    /\ UNCHANGED <<kind, src, argS, argK, initial_index_, step_, it, e, cur,
                   out, round, firstOut, dirty, sz, writes, pre, lastW>>
    /\ UNCHANGED mid
    /\ UNCHANGED pair

\* zipper.size()
CallSize ==
    /\ pc \in {"idle", "done"}
    /\ kind \in {"zip", "enumzip"}
    /\ sz = NoSize
    /\ sz' = <<ZipSize>>
    /\ UNCHANGED <<kind, src, argS, argK, initial_index_, step_, it, e, cur,
                   out, pc, round, firstOut, dirty, writes, pre, lastW>>
    /\ UNCHANGED mid
    /\ UNCHANGED pair

\* the caller starts the loop again on the same adapter
Again ==
    /\ pc = "done"
    /\ round < MaxRounds
    /\ round' = round + 1
    /\ firstOut' = IF round = 1 THEN out ELSE firstOut
    /\ pc' = "idle"
    /\ UNCHANGED <<kind, src, argS, argK, initial_index_, step_, it, e, cur,
                   out, dirty, sz, writes, pre, lastW>>
    /\ UNCHANGED mid
    /\ UNCHANGED pair

\* the caller applies ++ to a cursor that already compared equal to end:
\* incrementing an iterator at its end is undefined, it moves on or faults
ExtraAdvance ==
    /\ pc \in {"done", "past"}
    /\ \A j \in 1..N : Positions[j] <= Len(src[j]) + MaxOverrun
    /\ \/ /\ it' = (CASE kind = "zip" -> ZipInc(it)
                      [] kind = "enum" -> EnumInc(it)
                      [] kind = "enumzip" -> EnumZipInc(it))
          /\ mid' = (CASE kind = "zip" -> NoCursor
                       [] kind = "enum" -> EnumIncMid(it)
                       [] kind = "enumzip" -> EnumZipIncMid(it))
          /\ pc' = "past"
       \/ /\ pc' = "faulted"
          /\ UNCHANGED <<it, mid>>
    /\ UNCHANGED <<kind, src, argS, argK, initial_index_, step_, e, cur, out,
                   round, firstOut, dirty, sz, writes, pre, lastW>>
    /\ UNCHANGED pair

Next ==
    \/ CallBegin
    \/ CallEnd
    \/ Test
    \/ Deref
    \/ WriteThrough
    \/ Advance
    \/ Crash
    \/ CallSize
    \/ Again
    \/ ExtraAdvance

Spec == Init /\ [][Next]_vars

\* ------------------------------------------- two loops over one Zipper
\* b = z.begin(); e = z.end() of traversal c
PairBegin(c) ==
    /\ kind = "zip"
    /\ pair.pc[c] = "idle"
    /\ pair' = [pair EXCEPT !.cursor[Slot(c)] = ZipBegin,
                            !.e[c] = ZipEnd,
                            !.out[c] = <<>>,
                            !.pc[c] = "test"]
    /\ UNCHANGED loopVars

\* b != e of traversal c
PairTest(c) ==
    /\ pair.pc[c] = "test"
    /\ pair' = [pair EXCEPT !.pc[c] = IF ZipNeqEnd(pair.cursor[Slot(c)], pair.e[c])
                                      THEN "body" ELSE "done"]
    /\ UNCHANGED loopVars

\* *b of traversal c
PairDeref(c) ==
    /\ pair.pc[c] = "body"
    /\ LET refs == ZipDeref(pair.cursor[Slot(c)])
       IN \E k \in [1..N -> GarbageValues] :
             LET vals == [j \in 1..N |-> IF Valid(refs[j]) THEN src[refs[j].j][refs[j].pos] ELSE k[j]]
             IN pair' = [pair EXCEPT !.out[c] = Append(@, vals), !.pc[c] = "inc"]
    /\ UNCHANGED loopVars

\* ++b of traversal c
PairAdvance(c) ==
    /\ pair.pc[c] = "inc"
    /\ \A j \in 1..N : pair.cursor[Slot(c)].iter_[j] <= Len(src[j]) + MaxOverrun
    /\ pair' = [pair EXCEPT !.cursor[Slot(c)] = ZipInc(@), !.pc[c] = "test"]
    /\ UNCHANGED loopVars

InitPair == Init /\ kind = "zip"

NextPair ==
    \E c \in Cursors :
        \/ PairBegin(c)
        \/ PairTest(c)
        \/ PairDeref(c)
        \/ PairAdvance(c)

SpecPair == InitPair /\ [][NextPair]_vars

\* ------------------------------------------------------------ properties
\* m is the least of the sources' lengths
IsMin(m) == m \in Lens /\ \A l \in Lens : m <= l

Indexed == kind \in {"enum", "enumzip"}
HasCursors == pc \in {"test", "body", "inc", "done"}

\* the tuple of the i-th elements of the sources as they are now
Row(i) == [j \in 1..N |-> src[j][i]]

\* C1: a Zipper traversal never produces more tuples than the shortest source
\* has elements, never runs a cursor out of its source, and when the loop
\* stops it has produced exactly min(L1..LN) tuples.
C1_ZipLength ==
    kind = "zip" =>
        /\ pc /= "crashed"
        /\ \E m \in Lens : IsMin(m) /\ Len(out) <= m /\ (pc = "done" => Len(out) = m)

C1_Witness ==
    /\ kind = "zip" /\ pc = "done" /\ N = 2
    /\ Len(src[1]) = 2 /\ Len(src[2]) = 1 /\ Len(out) = 1

\* C2 (as claimed): a traversal of an Enumerator over a Zipper produces
\* exactly min(L1..LN) pairs, the i-th being (S + i*K, (src1[i], ..., srcN[i])).
C2_Claim ==
    kind = "enumzip" =>
        /\ pc /= "crashed"
        /\ \E m \in Lens : IsMin(m) /\ Len(out) <= m /\ (pc = "done" => Len(out) = m)
        /\ \A i \in 1..Len(out) : out[i] = <<argS + (i - 1) * argK, Row(i)>>

\* C3: every tuple a Zipper cursor produces at step i holds, in component j,
\* element i of source j (as the source is at that moment).
C3_Alignment ==
    [][(kind = "zip" /\ pc = "body" /\ pc' = "inc") =>
          /\ Len(out') = Len(out) + 1
          /\ \A j \in 1..N :
                /\ Len(out') <= Len(src[j])
                /\ out'[Len(out')][j] = src[j][Len(out')]]_vars

C3_Witness ==
    /\ kind = "zip" /\ N = 2 /\ Len(out) = 2
    /\ out[2] = <<Elem(1, 2), Elem(2, 2)>>

\* C4 (as claimed): a traversal of an Enumerator over one source of length L
\* produces exactly L pairs, the i-th being (S + i*K, source[i]).
C4_Claim ==
    kind = "enum" =>
        /\ Len(out) <= Len(src[1])
        /\ (pc = "done" => Len(out) = Len(src[1]))
        /\ \A i \in 1..Len(out) : out[i] = <<argS + (i - 1) * argK, src[1][i]>>

\* C5 (as claimed): with a negative step the i-th index produced is the
\* signed value S + i*K.
C5_Claim ==
    (Indexed /\ argK < 0) =>
        \A i \in 1..Len(out) :
            /\ out[i][1] = argS + (i - 1) * argK
            /\ (i > 1 => out[i][1] < out[i - 1][1])

\* C6: a write through component j of the tuple produced at step i changes
\* element i of source j and nothing else.
C6_ReferenceSemantics ==
    lastW /= NoWrite =>
        /\ src = [pre EXCEPT ![lastW.j][lastW.step] = lastW.v]
        /\ src[lastW.j][lastW.step] = lastW.v

C6_Witness ==
    /\ lastW /= NoWrite /\ lastW.j = 2 /\ lastW.step = 2
    /\ src[2][2] \in WriteValues /\ src[1][2] = Elem(1, 2)

\* C7: begin() always gives a cursor at the start of every source with the
\* index at start_index, end() the end positions, and every complete
\* traversal of an adapter whose sources were not written produces what
\* the first one produced.
C7_Idempotence ==
    /\ pc = "begun" =>
          /\ \A j \in 1..N : Positions[j] = 1
          /\ Indexed => it.index_ = initial_index_
    /\ HasCursors => \A j \in 1..N : EndPositions[j] = Len(src[j]) + 1
    /\ (pc = "done" /\ round >= 2 /\ ~dirty) => out = firstOut

C7_Witness ==
    /\ pc = "done" /\ round = 2 /\ ~dirty /\ Len(out) = 2 /\ out = firstOut

\* C8: == and != of two Enumerator cursors give the same answer whatever
\* index_ and step_ either cursor holds, and the answer is that of the inner
\* cursors.
C8_EqualityIgnoresIndex ==
    (Indexed /\ HasCursors) =>
        /\ \A i \in 0..(SizeMod - 1), s \in {0, 1, SizeMod - 1} :
              LET a == [it EXCEPT !.index_ = i, !.step_ = s]
                  b == [e EXCEPT !.index_ = i, !.step_ = s]
              IN IF kind = "enum"
                 THEN /\ EnumEq(a, e) = EnumEq(it, e)
                      /\ EnumEq(it, b) = EnumEq(it, e)
                      /\ EnumNeq(a, e) = EnumNeq(it, e)
                      /\ EnumNeq(it, b) = EnumNeq(it, e)
                      /\ EnumNeq(a, b) = ~EnumEq(it, e)
                 ELSE /\ EnumZipEq(a, e) = EnumZipEq(it, e)
                      /\ EnumZipEq(it, b) = EnumZipEq(it, e)
                      /\ EnumZipNeq(a, e) = EnumZipNeq(it, e)
                      /\ EnumZipNeq(it, b) = EnumZipNeq(it, e)
                      /\ EnumZipNeq(a, b) = ~EnumZipEq(it, e)
        /\ (pc = "done") => Positions = EndPositions
        /\ (pc \in {"body", "inc"}) => Positions /= EndPositions

C8_Witness ==
    /\ kind = "enum" /\ pc = "done" /\ Len(out) = 2
    /\ it.index_ /= e.index_

\* C9: with step 0 every pair carries start_index, and for every
\* start_index and step a traversal of an Enumerator over one source
\* produces as many pairs as the source has elements.
C9_StepZero ==
    /\ (Indexed /\ step_ = 0) => \A i \in 1..Len(out) : out[i][1] = initial_index_
    /\ kind = "enum" =>
          /\ pc /= "crashed"
          /\ Len(out) <= Len(src[1])
          /\ (pc = "done" => Len(out) = Len(src[1]))

C9_Witness ==
    /\ kind = "enum" /\ argK = 0 /\ argS = 3 /\ pc = "done"
    /\ Len(out) = 2 /\ out[1][1] = 3 /\ out[2][1] = 3

\* C10: size() is the least of the sources' lengths, and it is the number
\* of tuples a complete Zipper traversal produces.
C10_Size ==
    sz /= NoSize =>
        /\ IsMin(sz[1])
        /\ (kind = "zip" /\ pc = "done") => Len(out) = sz[1]

C10_Witness ==
    /\ sz = <<1>> /\ kind = "zip" /\ pc = "done" /\ N = 2
    /\ Len(src[1]) = 1 /\ Len(src[2]) = 2 /\ Len(out) = 1

\* the cursor class's operator++ and operator!= on any cursor of the kind
IncOf(c) == CASE kind = "zip" -> ZipInc(c)
              [] kind = "enum" -> EnumInc(c)
              [] kind = "enumzip" -> EnumZipInc(c)

NeqOf(c, ee) == CASE kind = "zip" -> ZipNeqEnd(c, ee)
                  [] kind = "enum" -> EnumNeq(c, ee)
                  [] kind = "enumzip" -> EnumZipNeq(c, ee)

\* k times ++c
RECURSIVE AdvanceN(_, _)
AdvanceN(c, k) == IF k = 0 THEN c ELSE AdvanceN(IncOf(c), k - 1)

\* C11 (as claimed): every dereference of every traversal, of a Zipper or
\* of either Enumerator, is at a position before the end of every source.
C11_Claim ==
    /\ pc = "body" => \A j \in 1..N : Positions[j] \in 1..Len(src[j])
    /\ pc = "inc" => \A j \in 1..N : Valid(cur[j])

\* C12 (as claimed): from every point of every traversal finitely many
\* operator++ bring the cursor to compare equal to the end cursor (positions
\* only grow, so MaxLen + 1 steps are enough if any number is).
C12_Claim ==
    pc \in {"test", "body", "inc"} =>
        \E k \in 0..(MaxLen + 1) : ~NeqOf(AdvanceN(it, k), e)

\* every tuple of positions inside the sources or at their ends
PositionTuples == {p \in [1..N -> 1..(MaxLen + 1)] : \A j \in 1..N : p[j] <= Len(src[j]) + 1}

\* C13: a Zipper cursor compares equal to the end marker exactly when at
\* least one of its positions is the end of its source, whatever the other
\* positions are; the loop stops in such a state and runs in no such state.
C13_AnyEnd ==
    (kind = "zip" /\ pc \in {"test", "body", "inc", "done"}) =>
        /\ \A p \in PositionTuples :
              /\ ZipEqEnd([iter_ |-> p], e) <=> (\E j \in 1..N : p[j] = Len(src[j]) + 1)
              /\ ZipNeqEnd([iter_ |-> p], e) <=> (\A j \in 1..N : p[j] <= Len(src[j]))
        /\ pc = "done" => \E j \in 1..N : it.iter_[j] = Len(src[j]) + 1
        /\ pc \in {"body", "inc"} => \A j \in 1..N : it.iter_[j] <= Len(src[j])

C13_Witness ==
    /\ kind = "zip" /\ pc = "done" /\ N = 2
    /\ it.iter_[1] <= Len(src[1]) /\ it.iter_[2] = Len(src[2]) + 1
    /\ ZipEqEnd(it, e)

\* the cursor class's operator== on any cursor of the kind
EqOf(c, ee) == CASE kind = "zip" -> ZipEqEnd(c, ee)
                 [] kind = "enum" -> EnumEq(c, ee)
                 [] kind = "enumzip" -> EnumZipEq(c, ee)

\* C14: every operator++ of a Zipper cursor, also of the one inside an
\* Enumerator and also when some position already is at or past its end,
\* moves every position forward by exactly one.
C14_LockStep ==
    [][(kind \in {"zip", "enumzip"} /\ pc \in {"inc", "done", "past"}) =>
          /\ (pc' \in {"test", "past"}) => it' /= it
          /\ (it' /= it) => \A j \in 1..N : Positions'[j] = Positions[j] + 1]_vars

C14_Witness ==
    /\ kind = "zip" /\ pc = "past" /\ N = 2
    /\ Positions[1] = Len(src[1]) + 2 /\ Positions[2] = Len(src[2]) + 1

\* C15 (as claimed): a cursor that compared equal to the end marker still
\* compares equal to it after any number of further operator++.
C15_Claim ==
    pc = "past" => (EqOf(it, e) /\ ~NeqOf(it, e))

\* C15 (amended): when the loop stops its cursor compares equal to the end
\* marker and the loop has advanced it exactly once per element produced;
\* after any further operator++ every cursor still has a position beyond
\* the last element of its source: it is never rewound to a state that
\* designates an element of every source.
C15_NotRewound ==
    /\ pc = "done" =>
          /\ EqOf(it, e) /\ ~NeqOf(it, e)
          /\ \A j \in 1..N : Positions[j] = Len(out) + 1
    /\ pc \in {"done", "past"} => \E j \in 1..N : Positions[j] > Len(src[j])

C15_Witness ==
    /\ kind = "zip" /\ pc = "past" /\ N = 2
    /\ Len(src[1]) = 0 /\ Len(src[2]) = 2
    /\ ~EqOf(it, e) /\ Positions[1] > Len(src[1])

\* C16 (as claimed): operator++ of an Enumerator cursor has advanced the
\* inner cursor at the point between its two statements.
C16_Claim ==
    (Indexed /\ mid /= NoCursor /\ pc \in {"test", "body", "inc", "done"}) =>
        mid.iter_ = it.iter_

\* C16 (amended): operator++ of an Enumerator cursor first adds step_ to
\* index_ and only then advances the inner cursor, both on every call: at
\* the point between the two the index is the new one and the inner cursor
\* the old one.
C16_IndexThenInner ==
    Indexed =>
        /\ (pc \in {"test", "body", "inc", "done", "past"} /\ Positions[1] > 1) => mid /= NoCursor
        /\ mid /= NoCursor =>
              /\ mid.index_ = it.index_
              /\ mid.step_ = it.step_
              /\ it.iter_ = (IF kind = "enum" THEN mid.iter_ + 1 ELSE ZipInc(mid.iter_))
              /\ it.index_ = (initial_index_ + (Positions[1] - 1) * step_) % SizeMod

C16_Witness ==
    /\ kind = "enum" /\ pc = "test" /\ argS = 3 /\ argK = 1
    /\ mid = [iter_ |-> 1, index_ |-> 4, step_ |-> 1]
    /\ it = [iter_ |-> 2, index_ |-> 4, step_ |-> 1]

\* what a traversal of the Zipper run alone produces (C1, C3)
AloneOut == [i \in 1..MinOf(Lens) |-> Row(i)]

\* the number of operator++ traversal c has made
PairAdvances(c) == IF pair.pc[c] = "inc" THEN Len(pair.out[c]) - 1 ELSE Len(pair.out[c])

\* C17: when two traversals of one Zipper are interleaved in any order, the
\* cursor of each is where its own operator++ calls put it, whatever the
\* other traversal did, and each traversal produces what it produces alone.
C17_Independent ==
    \A c \in Cursors :
        /\ pair.pc[c] /= "idle" =>
              /\ \A j \in 1..N : pair.cursor[Slot(c)].iter_[j] = PairAdvances(c) + 1
              /\ Len(pair.out[c]) <= Len(AloneOut)
              /\ \A i \in 1..Len(pair.out[c]) : pair.out[c][i] = AloneOut[i]
        /\ pair.pc[c] = "done" => pair.out[c] = AloneOut

C17_Witness ==
    /\ N = 2 /\ Len(src[1]) = 2 /\ Len(src[2]) = 2
    /\ pair.pc[1] = "done" /\ Len(pair.out[1]) = 2
    /\ pair.pc[2] = "inc" /\ Len(pair.out[2]) = 1
    /\ pair.cursor[1].iter_ = <<3, 3>> /\ pair.cursor[2].iter_ = <<1, 1>>

\* C18: after any sequence of begin, end, size, comparisons, operator++ and
\* operator* the Enumerator still holds the start index and the step it was
\* constructed with, its cursors carry that step, and the adapter still
\* refers to the same number of sources.
C18_ConfigurationFixed ==
    /\ initial_index_ = ToSizeT(argS)
    /\ step_ = ToSizeT(argK)
    /\ Len(src) = Len(pre)
    /\ (Indexed /\ pc /= "idle") => it.step_ = step_
    /\ (Indexed /\ HasCursors) => e.step_ = step_

C18_Witness ==
    /\ kind = "enumzip" /\ round = 2 /\ pc = "done" /\ Len(out) = 2
    /\ sz /= NoSize /\ argS = 3 /\ argK = -1
    /\ initial_index_ = 3 /\ step_ = SizeMod - 1

\* C19: as long as nothing was written through a reference the sources are
\* what they were at construction, and no operation ever changes the
\* length of a source.
C19_ReadOnly ==
    /\ writes = 0 => src = pre
    /\ Indexed => src = pre
    /\ \A j \in 1..N : Len(src[j]) = Len(pre[j])
    /\ \A j \in 1..N : \A i \in 1..Len(src[j]) : src[j][i] \in {Elem(j, i)} \cup WriteValues

C19_Witness ==
    /\ kind = "zip" /\ writes = 0 /\ round = 2 /\ pc = "done"
    /\ Len(out) = 2 /\ sz /= NoSize /\ src = Sources(<<2, 2>>)

\* C20: two Zipper Iterators compare equal exactly when all their positions
\* are pairwise equal, and that is the comparison the loop over an
\* Enumerator<Zipper> makes: it stops only with every position at its end
\* and goes on while one is not, also when another already is at its end.
C20_AllPositions ==
    (kind \in {"zip", "enumzip"} /\ pc \in {"test", "body", "inc", "done"}) =>
        /\ pc = "test" =>
              \A p \in PositionTuples :
                 LET a == [iter_ |-> p]
                     b == [iter_ |-> EndPositions]
                 IN /\ ZipEqIter(a, b) <=> (\A j \in 1..N : p[j] = EndPositions[j])
                    /\ ZipNeqIter(a, b) <=> (\E j \in 1..N : p[j] /= EndPositions[j])
                    /\ ZipEqIter(a, b) => ZipEqEnd(a, b)
        /\ (kind = "enumzip" /\ pc = "done") => \A j \in 1..N : Positions[j] = Len(src[j]) + 1
        /\ (kind = "enumzip" /\ pc \in {"body", "inc"}) => \E j \in 1..N : Positions[j] /= Len(src[j]) + 1

C20_Witness ==
    /\ kind = "enumzip" /\ pc = "body" /\ N = 2
    /\ Positions[1] = Len(src[1]) + 1 /\ Positions[2] <= Len(src[2])
    /\ ZipEqEnd(it.iter_, e.iter_) /\ ~ZipEqIter(it.iter_, e.iter_)

====
